---- MODULE Spec2Model ----
(***************************************************************************)
(* Mini-Agent-Engine (src/main.py): a graph workflow engine behind an HTTP *)
(* boundary.  The model follows asyncio's scheduling: a request handler    *)
(* runs to completion, and a background run is suspended only while it     *)
(* awaits a node's step (main.py:90), so every action below is one block   *)
(* of code between two suspension points.                                  *)
(*                                                                         *)
(* Python values: a str is a TLA+ string, a list a sequence, a dict a      *)
(* function over its key set, None the reserved value None.  uuid4() is    *)
(* modelled as a fresh identifier.  A step (an arbitrary callable of the   *)
(* registry) is modelled by what its invocation hands back to the engine:  *)
(* a returned value or a raised Exception, and the writes it made to the   *)
(* data mapping.  Exits that are not Exception subclasses (SystemExit,     *)
(* CancelledError) are outside the model.                                  *)
(***************************************************************************)
EXTENDS Integers, Sequences, FiniteSets, TLC

VARIABLES
    graphs_db,      \* main.py:61   graph_id -> GraphDefinition
    runs_db,        \* main.py:62   run_id -> WorkflowRun
    tool_registry,  \* main.py:63   the registered node names
    max_steps,      \* main.py:69   engine.max_steps
    tasks,          \* run_id -> the locals of its run_workflow_background task
    status_log,     \* run_id -> the values assigned to run.status, in order
    submitted,      \* run_id -> the initial_state of its Submit run request
    response        \* the response to the request handled last

vars == <<graphs_db, runs_db, tool_registry, max_steps, tasks, status_log,
          submitted, response>>

----------------------------------------------------------------------------
(* Bounds of the model *)

\* run submissions accepted
MaxRuns == 2
\* graphs stored by Create graph
MaxGraphs == 1
\* the engine's step cap in the general specification (engine.max_steps is
\* an attribute, 50 by default; the traversal only compares it to `steps`)
StepCap == 2

----------------------------------------------------------------------------
(* Python values *)

None == "<None>"

EmptyDict == [k \in {} |-> None]

\* dict.get(key): None when the key is absent
Get(d, k) == IF k \in DOMAIN d THEN d[k] ELSE None

\* the elements of a list
Elems(s) == {s[i] : i \in DOMAIN s}

\* truthiness of an Optional[str]: None and "" are falsy
Truthy(v) == v # None /\ v # ""

\* An edge configuration, Union[str, Dict[str, Optional[str]]], carries its
\* Python type; NoEdge is what graph.edges.get() returns for an absent key.
StrEdge(n) == [type |-> "str", to |-> n, map |-> EmptyDict]
DictEdge(m) == [type |-> "dict", to |-> None, map |-> m]
NoEdge == [type |-> "NoneType", to |-> None, map |-> EmptyDict]

\* `not edge_config` (main.py:117): None, "" and {} are falsy
EdgeFalsy(e) ==
    \/ e.type = "NoneType"
    \/ e.type = "str" /\ e.to = ""
    \/ e.type = "dict" /\ DOMAIN e.map = {}

----------------------------------------------------------------------------
(* The universe the requests and the steps are drawn from *)

\* the steps registered at import (main.py:169-173)
FixtureTools ==
    {"extract_functions", "check_complexity", "detect_issues",
     "suggest_improvements", "quality_gate"}

\* the name a later register_tool call may add: the empty name, which the
\* truth tests of the traversal (main.py:106, 117) treat as no node
CustomTools == {""}

\* node names of the graphs clients create
NodeNames == {"detect_issues", "quality_gate", "ghost", ""}

\* what one invocation of a step hands back: a returned value with its Python
\* type, or a raised Exception with its str(); and the keys it wrote into the
\* data mapping it was given
Returned(t, v, w) == [kind |-> "return", type |-> t, value |-> v, writes |-> w]
Raised(m, w) == [kind |-> "raise", type |-> "Exception", value |-> m, writes |-> w]

StepWrites == {[k \in {"seen"} |-> "yes"]}

StepResults ==
    {Returned("str", v, w) : v \in {"pass", "retry", ""}, w \in StepWrites}
    \cup {Returned("NoneType", None, w) : w \in StepWrites}
    \cup {Returned("int", "7", w) : w \in StepWrites}
    \cup {Raised(m, w) : m \in {"boom"}, w \in StepWrites}

\* initial_state of a Submit run request
InitialStates == {[k \in {"code"} |-> "def f"]}

----------------------------------------------------------------------------
(* GraphDefinition (main.py:22-50) *)

Graph(nodes, edges, start_node) ==
    [nodes |-> nodes, edges |-> edges, start_node |-> start_node]

\* the validator never raising
validate_start_node_off(v, values) == FALSE

\* @validator('start_node'): raises when the start node is not in nodes.
\* `values` holds the fields validated before this one.
validate_start_node(v, values) ==
    "nodes" \in DOMAIN values /\ v \notin Elems(values["nodes"])

\* the edge (source, target) makes validate_edges raise
EdgeRaises(source, target, nodes_set) ==
    \/ source \notin nodes_set
    \/ target.type = "str" /\ target.to \notin nodes_set
    \/ target.type = "dict"
       /\ \E outcome \in DOMAIN target.map :
            target.map[outcome] # None /\ target.map[outcome] \notin nodes_set

\* @validator('edges'): raises at the first offending edge
validate_edges(v, values) ==
    IF "nodes" \notin DOMAIN values
    THEN FALSE
    ELSE LET nodes_set == Elems(values["nodes"])
         IN \E source \in DOMAIN v : EdgeRaises(source, v[source], nodes_set)

\* GraphDefinition(**request.dict()) raises a ValidationError.  The fields are
\* validated in declaration order (nodes, edges, start_node), each validator
\* seeing the fields that passed before it; every error is collected.
GraphDefinitionRaises(req) ==
    LET values0 == [f \in {"nodes"} |-> req.nodes]
        edges_bad == validate_edges(req.edges, values0)
        values1 == IF edges_bad THEN values0
                   ELSE [f \in {"nodes", "edges"} |->
                            IF f = "nodes" THEN req.nodes ELSE req.edges]
    IN edges_bad \/ validate_start_node(req.start_node, values1)

\* the graph preloaded by lifespan (main.py:196-217)
default_graph_id == "code-review-agent"

DefaultGraph ==
    Graph(<<"extract_functions", "check_complexity", "detect_issues",
            "suggest_improvements", "quality_gate">>,
          [n \in FixtureTools |->
              CASE n = "extract_functions" -> StrEdge("check_complexity")
                [] n = "check_complexity" -> StrEdge("detect_issues")
                [] n = "detect_issues" -> StrEdge("suggest_improvements")
                [] n = "suggest_improvements" -> StrEdge("quality_gate")
                [] n = "quality_gate" ->
                     DictEdge([o \in {"retry", "pass"} |->
                                 IF o = "retry" THEN "detect_issues" ELSE None])],
          "extract_functions")

----------------------------------------------------------------------------
(* WorkflowRun records and the engine (main.py:52-128, 176-190) *)

\* fresh identifiers, standing for str(uuid.uuid4())
RunId(n) == "run-" \o ToString(n)
GraphId(n) == "graph-" \o ToString(n)

\* a record whose history list is the list of the first run's record
NewRun_shared(run_id, graph_id, initial_state) ==
    [run_id |-> run_id,
     graph_id |-> graph_id,
     status |-> "PENDING",
     state |-> [data |-> initial_state,
                history |-> IF "run-1" \in DOMAIN runs_db
                            THEN runs_db["run-1"].state.history ELSE <<>>],
     current_node |-> None,
     error |-> None]

\* WorkflowRun(run_id, graph_id, status=PENDING, state=WorkflowState(data))
\* (main.py:300-307): history, current_node and error take their defaults
NewRun(run_id, graph_id, initial_state) ==
    [run_id |-> run_id,
     graph_id |-> graph_id,
     status |-> "PENDING",
     state |-> [data |-> initial_state, history |-> <<>>],
     current_node |-> None,
     error |-> None]

\* the entry written over the list
Log_overwrite(run, entry) == [run EXCEPT !.state.history = <<entry>>]

\* state.history.append(entry)
Log(run, entry) == [run EXCEPT !.state.history = Append(@, entry)]

\* the step wrote into the data mapping it was given (dict update)
Write(run, writes) ==
    [run EXCEPT !.state.data =
        [k \in DOMAIN writes \cup DOMAIN @ |->
            IF k \in DOMAIN writes THEN writes[k] ELSE @[k]]]

\* the return value used as the label whatever its type
Outcome_raw(result) == result.value

\* main.py:94  result if isinstance(result, str) else "next"
Outcome(result) == IF result.type = "str" THEN result.value ELSE "next"

\* the cap test taken one step late
CapExceeded_late(steps, cap) == steps > cap + 1

\* the cap test taken one step early
CapExceeded_early(steps, cap) == steps >= cap

\* main.py:109  steps > self.max_steps
CapExceeded(steps, cap) == steps > cap

MaxStepsEntry(cap) == "Max steps (" \o ToString(cap) \o ") reached. Terminating."
WarningEntry(outcome) ==
    "Warning: Outcome '" \o outcome \o "' not defined in edges for node. Ending workflow."
NotFoundMessage(node_name) == "Node '" \o node_name \o "' not found in registry."

\* a loop exit that skips the final append
Completed_silent(run) == [run EXCEPT !.status = "COMPLETED"]

\* run_workflow returns normally: main.py:128, then main.py:184
Completed(run) ==
    [Log(run, "Workflow Completed.") EXCEPT !.status = "COMPLETED"]

\* the except block without main.py:187
Failed_still_running(run, m) ==
    [Log(run, "Workflow failed: " \o m) EXCEPT !.error = m]

\* the except block without main.py:188
Failed_no_error(run, m) ==
    [Log(run, "Workflow failed: " \o m) EXCEPT !.status = "FAILED"]

\* an exception with str(e) = m reaches run_workflow_background: main.py:186-189
Failed(run, m) ==
    [Log(run, "Workflow failed: " \o m) EXCEPT !.status = "FAILED", !.error = m]

\* The locals of a background task: where it stands (pc), run_workflow's
\* current_node and steps, the line at which the traversal loop was left
\* (left_at, 0 while it has not been) and str(e) of the exception caught at
\* main.py:186 (exc).
Task(pc, current_node, steps, left_at, exc) ==
    [pc |-> pc, current_node |-> current_node, steps |-> steps,
     left_at |-> left_at, exc |-> exc]

\* The traversal from the loop condition (main.py:106) to the next suspension
\* (the step invoked at main.py:90) or to the end of the task.  Gives the run
\* record and the task's locals.
Traverse(run, current_node, steps, registry, cap) ==
    IF ~Truthy(current_node)
    THEN [run |-> Completed(run),
          task |-> Task("done", current_node, steps, 106, None)]
    ELSE IF CapExceeded(steps + 1, cap)
    THEN [run |-> Completed(Log(run, MaxStepsEntry(cap))),
          task |-> Task("done", current_node, steps + 1, 111, None)]
    ELSE IF current_node \notin registry
    THEN [run |-> Failed(run, NotFoundMessage(current_node)),
          task |-> Task("done", current_node, steps + 1, 82,
                        NotFoundMessage(current_node))]
    ELSE [run |-> Log(run, "Executing: " \o current_node),
          task |-> Task("awaiting", current_node, steps + 1, 0, None)]

\* the traversal going back to the start node after every step
Successor_restart(graph, current_node, outcome) ==
    [left_at |-> 0, to |-> graph.start_node]

\* main.py:115-126: the successor chosen after a step returned `outcome`, as
\* [left_at |-> the line of the break that leaves the loop, 0 when the loop
\*  goes on, to |-> the new current_node]
Successor(graph, current_node, outcome) ==
    LET edge_config == IF current_node \in DOMAIN graph.edges
                       THEN graph.edges[current_node] ELSE NoEdge
    IN IF EdgeFalsy(edge_config)
       THEN [left_at |-> 118, to |-> current_node]
       ELSE IF edge_config.type = "str"
       THEN [left_at |-> 0, to |-> edge_config.to]
       ELSE LET nxt == Get(edge_config.map, outcome)
            IN IF nxt = None /\ outcome \notin DOMAIN edge_config.map
               THEN [left_at |-> 126, to |-> nxt]
               ELSE [left_at |-> 0, to |-> nxt]

\* The task resumes with the result of the awaited step (main.py:90-97), then
\* main.py:115-126 and the traversal up to the next suspension.
Resume(run, task, result, graph, registry, cap) ==
    LET written == Write(run, result.writes)
        node == task.current_node
    IN IF result.kind = "raise"
       THEN [run |-> Failed(Log(written,
                        "Error in " \o node \o ": " \o result.value), result.value),
             task |-> Task("done", node, task.steps, 97, result.value)]
       ELSE LET outcome == Outcome(result)
                succ == Successor(graph, node, outcome)
            IN IF succ.left_at = 126
               THEN [run |-> Completed(Log(written, WarningEntry(outcome))),
                     task |-> Task("done", succ.to, task.steps, 126, None)]
               ELSE IF succ.left_at = 118
               THEN [run |-> Completed(written),
                     task |-> Task("done", succ.to, task.steps, 118, None)]
               ELSE Traverse(written, succ.to, task.steps, registry, cap)

----------------------------------------------------------------------------
(* The requests of the general specification *)

\* a conditional mapping with the given keys
Cond2(o1, d1, o2, d2) == DictEdge([o \in {o1, o2} |-> IF o = o1 THEN d1 ELSE d2])
Cond1(o1, d1) == DictEdge([o \in {o1} |-> d1])
Edges1(n1, e1) == [n \in {n1} |-> e1]
Edges2(n1, e1, n2, e2) == [n \in {n1, n2} |-> IF n = n1 THEN e1 ELSE e2]

\* Create graph requests.  Valid: a retry loop with a terminal marker; a node
\* with no edge; a graph of the empty name alone; a mapping to the empty name
\* and an empty mapping; a graph naming a node nobody registers.  Invalid: one request for each check of
\* the validators.
GraphRequests ==
    { Graph(<<"detect_issues", "quality_gate">>,
            Edges2("detect_issues", StrEdge("quality_gate"),
                   "quality_gate", Cond2("retry", "detect_issues", "pass", None)),
            "detect_issues"),
      Graph(<<"check_complexity">>, EmptyDict, "check_complexity"),
      Graph(<<"">>, EmptyDict, ""),
      Graph(<<"", "quality_gate", "detect_issues", "">>,
            Edges2("quality_gate", Cond2("pass", "", "retry", "detect_issues"),
                   "detect_issues", DictEdge(EmptyDict)),
            "quality_gate"),
      Graph(<<"ghost", "detect_issues", "", "ghost">>,
            Edges1("detect_issues", StrEdge("ghost")),
            "detect_issues"),
      Graph(<<"detect_issues">>, EmptyDict, "quality_gate"),
      Graph(<<"detect_issues">>,
            Edges1("quality_gate", StrEdge("detect_issues")), "detect_issues"),
      Graph(<<"detect_issues">>,
            Edges1("detect_issues", StrEdge("quality_gate")), "detect_issues"),
      Graph(<<"detect_issues">>,
            Edges1("detect_issues", Cond2("pass", None, "retry", "ghost")),
            "detect_issues") }

\* graph ids a Submit run request may name
GraphIdsAsked ==
    {default_graph_id, "no-such-graph"} \cup {GraphId(n) : n \in 1..MaxGraphs}

----------------------------------------------------------------------------
(* The state after startup: the import-time registrations and lifespan *)

NoResponse == [op |-> "none", status |-> 0, id |-> "", names |-> <<>>]
Reply(op, status, id, names) ==
    [op |-> op, status |-> status, id |-> id, names |-> names]

Init ==
    /\ graphs_db = [g \in {default_graph_id} |-> DefaultGraph]
    /\ runs_db = [r \in {} |-> None]
    /\ tool_registry = FixtureTools
    /\ max_steps = StepCap
    /\ tasks = [r \in {} |-> None]
    /\ status_log = [r \in {} |-> <<>>]
    /\ submitted = [r \in {} |-> EmptyDict]
    /\ response = NoResponse

\* dict[key] = value
Put(d, key, value) ==
    [k \in DOMAIN d \cup {key} |-> IF k = key THEN value ELSE d[k]]

----------------------------------------------------------------------------
(* Operations *)

\* WorkflowEngine.register_tool (main.py:71-74)
RegisterTool(name) ==
    /\ tool_registry' = tool_registry \cup {name}
    /\ UNCHANGED <<graphs_db, runs_db, max_steps, tasks, status_log, submitted,
                   response>>

\* POST /graph/create (main.py:263-279)
CreateGraph(req) ==
    LET graph_id == GraphId(Cardinality(DOMAIN graphs_db))
    IN /\ IF GraphDefinitionRaises(req)
          THEN /\ response' = Reply("create_graph", 400, "", <<>>)
               /\ UNCHANGED graphs_db
          ELSE /\ graphs_db' = Put(graphs_db, graph_id, req)
               /\ response' = Reply("create_graph", 200, graph_id, <<>>)
       /\ UNCHANGED <<runs_db, tool_registry, max_steps, tasks, status_log, submitted>>

\* the check dropped: no node of the graph is listed
UnregisteredNodes_none(graph, registry) == <<>>

\* the filter dropped: every node of the graph is listed
UnregisteredNodes_all(graph, registry) == graph.nodes

\* main.py:292  [node for node in graph.nodes if node not in tool_registry]
UnregisteredNodes(graph, registry) ==
    LET Missing(node) == node \notin registry
    IN SelectSeq(graph.nodes, Missing)

\* the unknown graph reported as a validation error
GraphNotFound_400(graph_id) == Reply("run_graph", 400, graph_id, <<>>)

\* main.py:289  HTTPException(status_code=404, ...)
GraphNotFound(graph_id) == Reply("run_graph", 404, graph_id, <<>>)

\* an id that is not fresh
FreshRunId_reused(db) == RunId(1)

\* main.py:299  run_id = str(uuid.uuid4()): an id no run has
FreshRunId(db) == RunId(Cardinality(DOMAIN db) + 1)

\* POST /graph/run (main.py:281-311)
RunGraph(graph_id, initial_state) ==
    IF graph_id \notin DOMAIN graphs_db
    THEN /\ response' = GraphNotFound(graph_id)
         /\ UNCHANGED <<graphs_db, runs_db, tool_registry, max_steps, tasks,
                        status_log, submitted>>
    ELSE LET graph == graphs_db[graph_id]
             unregistered_nodes == UnregisteredNodes(graph, tool_registry)
             run_id == FreshRunId(runs_db)
         IN IF unregistered_nodes # <<>>
            THEN /\ response' = Reply("run_graph", 400, graph_id, unregistered_nodes)
                 /\ UNCHANGED <<graphs_db, runs_db, tool_registry, max_steps,
                                tasks, status_log, submitted>>
            ELSE /\ runs_db' = Put(runs_db, run_id, NewRun(run_id, graph_id, initial_state))
                 /\ tasks' = Put(tasks, run_id, Task("scheduled", None, 0, 0, None))
                 /\ status_log' = Put(status_log, run_id,
                                      <<NewRun(run_id, graph_id, initial_state).status>>)
                 /\ response' = Reply("run_graph", 200, run_id, <<>>)
                 /\ submitted' = Put(submitted, run_id, initial_state)
                 /\ UNCHANGED <<graphs_db, tool_registry, max_steps>>

\* the task without main.py:179
Started_skipped(run) == run

\* main.py:179  run.status = WorkflowStatus.RUNNING
Started(run) == [run EXCEPT !.status = "RUNNING"]

\* the status the rest of a block assigned to the record (main.py:184, 187)
Assigned(before, after) ==
    IF after.status # before.status THEN <<after.status>> ELSE <<>>

\* run_workflow_background starts (main.py:176-183) and runs to its first
\* suspension, or to its end when no step is invoked
StartRun(run_id) ==
    /\ run_id \in DOMAIN tasks
    /\ tasks[run_id].pc = "scheduled"
    /\ LET run == Started(runs_db[run_id])
           graph == graphs_db[run.graph_id]
           t == Traverse(run, graph.start_node, 0, tool_registry, max_steps)
       IN /\ runs_db' = [runs_db EXCEPT ![run_id] = t.run]
          /\ tasks' = [tasks EXCEPT ![run_id] = t.task]
          /\ status_log' = [status_log EXCEPT
                              ![run_id] = @ \o <<run.status>> \o Assigned(run, t.run)]
    /\ UNCHANGED <<graphs_db, tool_registry, max_steps, submitted, response>>

\* the awaited step of a run hands back `result` and the task goes on to its
\* next suspension or to its end
StepReturns(run_id, result) ==
    /\ run_id \in DOMAIN tasks
    /\ tasks[run_id].pc = "awaiting"
    /\ LET run == runs_db[run_id]
           t == Resume(run, tasks[run_id], result, graphs_db[run.graph_id],
                       tool_registry, max_steps)
       IN /\ runs_db' = [runs_db EXCEPT ![run_id] = t.run]
          /\ tasks' = [tasks EXCEPT ![run_id] = t.task]
          /\ status_log' = [status_log EXCEPT ![run_id] = @ \o Assigned(run, t.run)]
    /\ UNCHANGED <<graphs_db, tool_registry, max_steps, submitted, response>>

\* GET /graph/state/{run_id} (main.py:313-322): reads the store
get_run_state(run_id) ==
    IF run_id \notin DOMAIN runs_db
    THEN [status |-> 404, body |-> None]
    ELSE [status |-> 200, body |-> runs_db[run_id]]

RunIds == {RunId(n) : n \in 1..MaxRuns}

Next ==
    \/ \E name \in CustomTools : RegisterTool(name)
    \/ \E req \in GraphRequests :
          Cardinality(DOMAIN graphs_db) <= MaxGraphs /\ CreateGraph(req)
    \/ \E graph_id \in GraphIdsAsked, initial_state \in InitialStates :
          Cardinality(DOMAIN runs_db) < MaxRuns /\ RunGraph(graph_id, initial_state)
    \/ \E run_id \in RunIds : StartRun(run_id)
    \/ \E run_id \in RunIds, result \in StepResults : StepReturns(run_id, result)

Spec == Init /\ [][Next]_vars

----------------------------------------------------------------------------
(* Vocabulary of the properties *)

AllNames == FixtureTools \cup NodeNames \cup CustomTools

IsTerminal(run) == run.status \in {"COMPLETED", "FAILED"}

IsPrefix(s, t) == Len(s) <= Len(t) /\ SubSeq(t, 1, Len(s)) = s

Last(s) == s[Len(s)]

\* the history entries written for node executions
IsExecuting(entry) == \E n \in AllNames : entry = "Executing: " \o n

Occurrences(history, entry) ==
    Cardinality({i \in DOMAIN history : history[i] = entry})

Executions(history) ==
    Cardinality({i \in DOMAIN history : IsExecuting(history[i])})

HistoryOf(run_id) == runs_db[run_id].state.history

\* the task of the run has ended, the traversal loop left at one of `lines`
LeftAt(run_id, lines) ==
    tasks[run_id].pc = "done" /\ tasks[run_id].left_at \in lines

\* the loop exits that are no failure: loop condition false (no current node,
\* terminal marker), step cap, absent edge, undefined outcome
NormalExits == {106, 111, 118, 126}

----------------------------------------------------------------------------
(* C1: the values assigned to a run's status form a prefix of PENDING,
   RUNNING, T with T COMPLETED or FAILED; the record is PENDING exactly while
   its background task has not started, and the record shows the value
   assigned last. *)
C1_StatusLifecycle ==
    \A r \in DOMAIN runs_db :
        /\ Len(status_log[r]) >= 1
        /\ \E t \in {"COMPLETED", "FAILED"} :
              IsPrefix(status_log[r], <<"PENDING", "RUNNING", t>>)
        /\ runs_db[r].status = Last(status_log[r])
        /\ (runs_db[r].status = "PENDING") <=> (tasks[r].pc = "scheduled")
        /\ IsTerminal(runs_db[r]) <=> (tasks[r].pc = "done")

C1_Witness ==
    \E r1, r2 \in DOMAIN runs_db :
        /\ status_log[r1] = <<"PENDING", "RUNNING", "COMPLETED">>
        /\ status_log[r2] = <<"PENDING", "RUNNING", "FAILED">>

(* C2: a run whose traversal loop was left without a failure has
   "Workflow Completed." exactly once in its history, as the last entry; a
   run that failed because a step raised has no such entry. *)
C2_CompletedEntry ==
    \A r \in DOMAIN runs_db :
        /\ LeftAt(r, NormalExits) =>
              /\ Occurrences(HistoryOf(r), "Workflow Completed.") = 1
              /\ Last(HistoryOf(r)) = "Workflow Completed."
        /\ LeftAt(r, {97}) =>
              Occurrences(HistoryOf(r), "Workflow Completed.") = 0

C2_Witness ==
    \E r1, r2 \in DOMAIN runs_db :
        /\ LeftAt(r1, {126}) /\ LeftAt(r2, {97})
        /\ Len(HistoryOf(r1)) >= 3

\* every node the run executed has an unconditional edge to a named node,
\* so it has a successor whatever its step returns
AlwaysHasSuccessor(run_id) ==
    LET graph == graphs_db[runs_db[run_id].graph_id]
    IN \A n \in AllNames :
          (\E i \in DOMAIN HistoryOf(run_id) : HistoryOf(run_id)[i] = "Executing: " \o n)
          => /\ n \in DOMAIN graph.edges
             /\ graph.edges[n].type = "str"
             /\ Truthy(graph.edges[n].to)

(* C3: a run that ended without a raising step and without a terminal exit
   (in particular a run whose executed nodes all have an unconditional
   successor) executed exactly max_steps nodes; its history is those
   max_steps "Executing" entries, the max-steps entry and
   "Workflow Completed."; its status is COMPLETED and its error unset. *)
C3_StepCap ==
    \A r \in DOMAIN runs_db :
        (/\ tasks[r].pc = "done"
         /\ tasks[r].left_at \notin {97, 82}
         /\ \/ tasks[r].left_at \notin {106, 118, 126}
            \/ AlwaysHasSuccessor(r) /\ Truthy(graphs_db[runs_db[r].graph_id].start_node)) =>
            LET h == HistoryOf(r)
            IN /\ Executions(h) = max_steps
               /\ Len(h) = max_steps + 2
               /\ \A i \in 1..max_steps : IsExecuting(h[i])
               /\ h[max_steps + 1] = MaxStepsEntry(max_steps)
               /\ h[max_steps + 2] = "Workflow Completed."
               /\ runs_db[r].status = "COMPLETED"
               /\ runs_db[r].error = None

C3_Witness ==
    \E r1, r2 \in DOMAIN runs_db :
        /\ LeftAt(r1, {111}) /\ LeftAt(r2, {111})
        /\ runs_db[r1].graph_id = GraphId(1) /\ ~AlwaysHasSuccessor(r1)
        /\ runs_db[r2].graph_id = default_graph_id /\ AlwaysHasSuccessor(r2)
        /\ Executions(HistoryOf(r1)) = max_steps

(* C4: when the step of node n raised with message m, the run is FAILED with
   error m, and its history ends with "Executing: n", "Error in n: m" and the
   orchestrator's failure entry carrying m: nothing was executed after n. *)
C4_StepFailure ==
    \A r \in DOMAIN runs_db :
        LeftAt(r, {97}) =>
            LET h == HistoryOf(r)
                n == tasks[r].current_node
                m == tasks[r].exc
            IN /\ runs_db[r].status = "FAILED"
               /\ runs_db[r].error = m
               /\ Len(h) >= 3
               /\ h[Len(h) - 2] = "Executing: " \o n
               /\ h[Len(h) - 1] = "Error in " \o n \o ": " \o m
               /\ h[Len(h)] = "Workflow failed: " \o m
               /\ Executions(h) = tasks[r].steps

C4_Witness ==
    \E r \in DOMAIN runs_db :
        /\ LeftAt(r, {97})
        /\ tasks[r].exc = "boom"
        /\ Executions(HistoryOf(r)) = 2

----------------------------------------------------------------------------
(* Scheduling: the task of every run eventually takes its next step (a
   scheduled background task is eventually started, an awaited step eventually
   returns or raises). *)
TaskStep(run_id) ==
    StartRun(run_id) \/ \E result \in StepResults : StepReturns(run_id, result)

Fairness == \A r \in RunIds : WF_vars(TaskStep(r))

\* The specification of the liveness property: clients create the retry loop
\* (a cyclic graph) and submit runs of it and of the preloaded graph.
LoopRequests ==
    { Graph(<<"detect_issues", "quality_gate">>,
            Edges2("detect_issues", StrEdge("quality_gate"),
                   "quality_gate", Cond2("retry", "detect_issues", "pass", None)),
            "detect_issues") }

LiveNext ==
    \/ \E req \in LoopRequests :
          Cardinality(DOMAIN graphs_db) <= MaxGraphs /\ CreateGraph(req)
    \/ \E graph_id \in GraphIdsAsked, initial_state \in InitialStates :
          Cardinality(DOMAIN runs_db) < MaxRuns /\ RunGraph(graph_id, initial_state)
    \/ \E run_id \in RunIds : StartRun(run_id)
    \/ \E run_id \in RunIds, result \in StepResults : StepReturns(run_id, result)

LiveSpec == Init /\ [][LiveNext]_vars /\ Fairness

(* C5: under that scheduling every accepted run eventually is COMPLETED or
   FAILED, whatever the other runs and requests do, and no run ever executes
   more than max_steps nodes. *)
C5_RunsTerminate ==
    /\ [](\A r \in DOMAIN runs_db :
            /\ Executions(HistoryOf(r)) <= max_steps
            /\ Executions(HistoryOf(r)) = tasks[r].steps
                   - (IF tasks[r].left_at \in {111, 82} THEN 1 ELSE 0))
    /\ \A r \in RunIds :
          (r \in DOMAIN runs_db) ~> (r \in DOMAIN runs_db /\ IsTerminal(runs_db[r]))

C5_Witness ==
    \E r1, r2 \in DOMAIN runs_db :
        /\ r1 # r2
        /\ LeftAt(r1, {111})
        /\ tasks[r2].pc = "awaiting"
        /\ runs_db[r1].graph_id = GraphId(1) /\ runs_db[r2].graph_id = GraphId(1)

----------------------------------------------------------------------------
\* the node names of a stored graph that are not registered
MissingNames(graph_id) ==
    {n \in Elems(graphs_db[graph_id].nodes) : n \notin tool_registry}

(* C6: a Submit run on a stored graph with a node name that is not registered
   is answered 400 with exactly the unregistered names of the graph, and
   creates no run record, schedules no task and changes no store. *)
C6_UnregisteredRejected ==
    [][\A g \in GraphIdsAsked, init \in InitialStates :
          (g \in DOMAIN graphs_db /\ MissingNames(g) # {} /\ RunGraph(g, init)) =>
              /\ response'.op = "run_graph"
              /\ response'.status = 400
              /\ Elems(response'.names) = MissingNames(g)
              /\ UNCHANGED <<runs_db, tasks, status_log, graphs_db, tool_registry>>]_vars

C6_Witness ==
    /\ response.op = "run_graph"
    /\ response.status = 400
    /\ response.names = <<"ghost", "ghost">>
    /\ "" \in tool_registry

(* C7: a Submit run naming a graph id that is not in the graph store is
   answered 404 and leaves the run store, the graph store, the registry and
   the scheduled tasks unchanged. *)
C7_UnknownGraphRejected ==
    [][\A g \in GraphIdsAsked, init \in InitialStates :
          (g \notin DOMAIN graphs_db /\ RunGraph(g, init)) =>
              /\ response'.op = "run_graph"
              /\ response'.status = 404
              /\ UNCHANGED <<runs_db, tasks, status_log, graphs_db, tool_registry>>]_vars

C7_Witness ==
    /\ response.op = "run_graph"
    /\ response.status = 404
    /\ response.id = GraphId(1)
    /\ DOMAIN runs_db # {}

----------------------------------------------------------------------------
(* Graph validation: every graph over two node names, with at most two
   entries in nodes and one outcome label, is sent to Create graph. *)

CreateNames == {"detect_issues", "quality_gate"}

CreateNodeLists ==
    {<<>>} \cup {<<x>> : x \in CreateNames}
           \cup {<<x, y>> : x \in CreateNames, y \in CreateNames}

CreateTargets ==
    {StrEdge(n) : n \in CreateNames}
    \cup {DictEdge(m) : m \in UNION {[K -> CreateNames \cup {None}] :
                                        K \in SUBSET {"pass"}}}

AllGraphRequests ==
    {Graph(nodes, edges, start_node) :
        nodes \in CreateNodeLists,
        edges \in UNION {[S -> CreateTargets] : S \in SUBSET CreateNames},
        start_node \in CreateNames}

CreateNext ==
    \E req \in AllGraphRequests :
        DOMAIN graphs_db = {default_graph_id} /\ CreateGraph(req)

SpecCreate == Init /\ [][CreateNext]_vars

\* the conditions of the data model: the start node, every edge source and
\* every edge destination other than the terminal marker are in nodes
WellFormed(req) ==
    /\ req.start_node \in Elems(req.nodes)
    /\ \A source \in DOMAIN req.edges :
          /\ source \in Elems(req.nodes)
          /\ req.edges[source].type = "str" => req.edges[source].to \in Elems(req.nodes)
          /\ req.edges[source].type = "dict" =>
                \A o \in DOMAIN req.edges[source].map :
                    req.edges[source].map[o] # None
                    => req.edges[source].map[o] \in Elems(req.nodes)

(* C8: Create graph succeeds, storing the graph, exactly when the start node,
   every edge source and every edge destination other than the terminal
   marker are in nodes; a request that fails adds nothing to the graph
   store. *)
C8_Validation ==
    [][\A req \in AllGraphRequests :
          CreateGraph(req) =>
              /\ response'.op = "create_graph"
              /\ (response'.status = 200) <=> WellFormed(req)
              /\ (response'.status # 200) => (response'.status = 400 /\ graphs_db' = graphs_db)
              /\ (response'.status = 200) =>
                    /\ response'.id \notin DOMAIN graphs_db
                    /\ graphs_db' = Put(graphs_db, response'.id, req)]_vars

\* a stored graph with an unreachable node and a mapping that handles one
\* outcome only
C8_Witness ==
    /\ response.op = "create_graph"
    /\ response.status = 200
    /\ graphs_db[response.id] =
          Graph(<<"detect_issues", "quality_gate">>,
                Edges1("detect_issues", Cond1("pass", None)),
                "detect_issues")

(* C9: once a run has executed a node, the current_node of its record is the
   node named by the latest "Executing" entry of its history. *)
C9_CurrentNode ==
    \A r \in DOMAIN runs_db :
        Executions(HistoryOf(r)) >= 1 =>
            \E i \in DOMAIN HistoryOf(r) :
                /\ HistoryOf(r)[i] = "Executing: " \o runs_db[r].current_node
                /\ \A j \in DOMAIN HistoryOf(r) : j > i => ~IsExecuting(HistoryOf(r)[j])

(* C10: once Query run shows a run COMPLETED or FAILED, no step of the system
   changes what Query run returns for it. *)
C10_TerminalImmutable ==
    [][\A r \in RunIds :
          (r \in DOMAIN runs_db /\ IsTerminal(runs_db[r])) =>
              /\ get_run_state(r).status = 200
              /\ get_run_state(r)' = get_run_state(r)]_vars

\* a failed run, while another run is in progress and a graph was just created
C10_Witness ==
    \E r1, r2 \in DOMAIN runs_db :
        /\ runs_db[r1].status = "FAILED"
        /\ "seen" \in DOMAIN runs_db[r1].state.data
        /\ tasks[r2].pc = "awaiting"
        /\ Len(HistoryOf(r2)) >= 2
        /\ response.op = "create_graph"
        /\ response.status = 200

----------------------------------------------------------------------------
\* what the task of run r does in its next block when r is the only run of the
\* system: the registry holds the names of r's graph and nothing else is
\* read
AloneStart(run_id) ==
    LET run == runs_db[run_id]
        graph == graphs_db[run.graph_id]
    IN Traverse([run EXCEPT !.status = "RUNNING"], graph.start_node, 0,
                Elems(graph.nodes), max_steps)

AloneStep(run_id, result) ==
    LET run == runs_db[run_id]
        graph == graphs_db[run.graph_id]
    IN Resume(run, tasks[run_id], result, graph, Elems(graph.nodes), max_steps)

(* C11: with runs interleaved at their suspension points, a step of the
   system changes the record of at most one run, and it is a block of that
   run's own task: the record after it is the record the run would have if
   it executed alone with the same step result (same status, error, data and
   history); requests and the tasks of other runs leave a record as it is,
   and a new record starts PENDING with the submitted data and an empty
   history. *)
C11_RunIsolation ==
    [][/\ \A r \in DOMAIN runs_db :
            /\ r \in DOMAIN runs_db'
            /\ (runs_db'[r] # runs_db[r] \/ tasks'[r] # tasks[r]) =>
                  /\ \A q \in DOMAIN runs_db \ {r} :
                        runs_db'[q] = runs_db[q] /\ tasks'[q] = tasks[q]
                  /\ DOMAIN runs_db' = DOMAIN runs_db
                  /\ \/ /\ tasks[r].pc = "scheduled"
                        /\ [run |-> runs_db'[r], task |-> tasks'[r]] = AloneStart(r)
                     \/ /\ tasks[r].pc = "awaiting"
                        /\ \E result \in StepResults :
                              [run |-> runs_db'[r], task |-> tasks'[r]]
                                  = AloneStep(r, result)
       /\ \A r \in DOMAIN runs_db' \ DOMAIN runs_db :
            /\ runs_db'[r].status = "PENDING"
            /\ runs_db'[r].error = None
            /\ runs_db'[r].state.history = <<>>
            /\ runs_db'[r].state.data \in InitialStates
            /\ tasks'[r].pc = "scheduled"]_vars

\* two runs of different graphs suspended at a step at the same time, each
\* with the entries of its own executions
C11_Witness ==
    \E r1, r2 \in DOMAIN runs_db :
        /\ runs_db[r1].graph_id # runs_db[r2].graph_id
        /\ tasks[r1].pc = "awaiting" /\ tasks[r2].pc = "awaiting"
        /\ HistoryOf(r1) = <<"Executing: extract_functions",
                             "Executing: check_complexity">>
        /\ HistoryOf(r2) = <<"Executing: quality_gate">>
        /\ "seen" \in DOMAIN runs_db[r1].state.data

----------------------------------------------------------------------------
(* The fixture: the node functions of main.py:133-167, run on the preloaded
   graph under the engine's own step cap.  The five functions are plain
   functions; the model lets the task suspend at each of them as it does for
   a coroutine step, which only adds intermediate states. *)

\* main.py:69  self.max_steps = 50
DefaultMaxSteps == 50

\* the longest code field submitted, in lines
MaxLines == 3

\* A value of the data mapping whose type the functions depend on carries its
\* Python type.  A str is held as the list of its lines, which is what
\* code.split("\n") returns.
PyInt(n) == [type |-> "int", n |-> n, lines |-> <<>>]
PyStr(lines) == [type |-> "str", n |-> 0, lines |-> lines]

\* dict.get(key, default)
GetOr(d, k, default) == IF k \in DOMAIN d THEN d[k] ELSE default

\* the lines of the code fields submitted, and  "def " in line
CodeLines == {"def f():", "    return 1"}
HasDef(line) == line \in {"def f():"}

\* str(value) inside an f-string
Format(value) == IF value.type = "int" THEN ToString(value.n) ELSE value.lines[1]

\* the keys a step assigned
Set1(k, v) == [x \in {k} |-> v]
Set2(k1, v1, k2, v2) == [x \in {k1, k2} |-> IF x = k1 THEN v1 ELSE v2]

\* main.py:131-134
node_extract_functions(state) ==
    LET code == GetOr(state, "code", PyStr(<<"">>))
    IN IF code.type # "str"
       THEN Raised("'" \o code.type \o "' object has no attribute 'split'", EmptyDict)
       ELSE Returned("NoneType", None,
                     Set1("functions", SelectSeq(code.lines, HasDef)))

\* main.py:136-138
node_check_complexity(state) ==
    Returned("NoneType", None,
             Set1("complexity_score", Len(GetOr(state, "functions", <<>>)) * 2))

\* main.py:140-143
node_detect_issues(state) ==
    LET complexity == GetOr(state, "complexity_score", 0)
    IN Returned("NoneType", None,
                Set1("issues", IF complexity > 5 THEN <<"Line 10: Too long">> ELSE <<>>))

\* the score set to 20 instead of raised by 20
node_suggest_improvements_reset(state) ==
    IF GetOr(state, "issues", <<>>) # <<>>
    THEN Returned("NoneType", None,
                  Set2("suggestions", "Refactor logic to reduce complexity",
                       "quality_score", PyInt(20)))
    ELSE Returned("NoneType", None,
                  Set2("suggestions", "Code looks good!", "quality_score", PyInt(100)))

\* main.py:145-152; the first assignment is made before `+ 20` can raise
node_suggest_improvements(state) ==
    IF GetOr(state, "issues", <<>>) # <<>>
    THEN LET score == GetOr(state, "quality_score", PyInt(0))
         IN IF score.type # "int"
            THEN Raised("can only concatenate str (not \"int\") to str",
                        Set1("suggestions", "Refactor logic to reduce complexity"))
            ELSE Returned("NoneType", None,
                          Set2("suggestions", "Refactor logic to reduce complexity",
                               "quality_score", PyInt(score.n + 20)))
    ELSE Returned("NoneType", None,
                  Set2("suggestions", "Code looks good!", "quality_score", PyInt(100)))

\* the list created when the key is missing
node_quality_gate_setdefault(state) ==
    LET score == GetOr(state, "quality_score", PyInt(0))
        w == Set1("history", Append(GetOr(state, "history", <<>>),
                                    "Quality Gate: score=" \o Format(score)))
    IN IF score.type # "int"
       THEN Raised("'>=' not supported between instances of 'str' and 'int'", w)
       ELSE Returned("str", IF score.n >= 80 THEN "pass" ELSE "retry", w)

\* main.py:154-167; state["history"] raises KeyError('history'), whose str()
\* is the quoted key
node_quality_gate(state) ==
    LET score == GetOr(state, "quality_score", PyInt(0))
    IN IF "history" \notin DOMAIN state
       THEN Raised("'history'", EmptyDict)
       ELSE LET w == Set1("history", Append(state["history"],
                                            "Quality Gate: score=" \o Format(score)))
            IN IF score.type # "int"
               THEN Raised("'>=' not supported between instances of 'str' and 'int'", w)
               ELSE Returned("str", IF score.n >= 80 THEN "pass" ELSE "retry", w)

\* func = self.registry[node_name]; func(state.data)  (main.py:84, 92) with the
\* registrations of main.py:169-173
Invoke(node_name, state) ==
    CASE node_name = "extract_functions" -> node_extract_functions(state)
      [] node_name = "check_complexity" -> node_check_complexity(state)
      [] node_name = "detect_issues" -> node_detect_issues(state)
      [] node_name = "suggest_improvements" -> node_suggest_improvements(state)
      [] node_name = "quality_gate" -> node_quality_gate(state)

\* initial_state of the Submit run requests: each of code, history and
\* quality_score absent or present; code a str of up to MaxLines lines or a
\* number, history a list, quality_score a number or a str
Codes ==
    {<<>>, <<PyInt(5)>>, <<PyStr(<<"">>)>>}
    \cup {<<PyStr(lines)>> : lines \in UNION {[1..n -> CodeLines] : n \in 1..MaxLines}}
Histories == {<<>>, <<<<>>>>, <<<<"seeded">>>>}
Scores == {<<>>, <<PyInt(70)>>, <<PyStr(<<"high">>)>>}

InitialState(code, history, quality_score) ==
    [k \in (IF code # <<>> THEN {"code"} ELSE {})
           \cup (IF history # <<>> THEN {"history"} ELSE {})
           \cup (IF quality_score # <<>> THEN {"quality_score"} ELSE {}) |->
        CASE k = "code" -> code[1]
          [] k = "history" -> history[1]
          [] k = "quality_score" -> quality_score[1]]

FixtureStates ==
    {InitialState(c, h, q) : c \in Codes, h \in Histories, q \in Scores}

FixtureInit ==
    /\ graphs_db = [g \in {default_graph_id} |-> DefaultGraph]
    /\ runs_db = [r \in {} |-> None]
    /\ tool_registry = FixtureTools
    /\ max_steps = DefaultMaxSteps
    /\ tasks = [r \in {} |-> None]
    /\ status_log = [r \in {} |-> <<>>]
    /\ submitted = [r \in {} |-> EmptyDict]
    /\ response = NoResponse

\* the step of the current node is invoked on the run's data and returns
FixtureStep(run_id) ==
    /\ run_id \in DOMAIN tasks
    /\ tasks[run_id].pc = "awaiting"
    /\ StepReturns(run_id, Invoke(tasks[run_id].current_node,
                                  runs_db[run_id].state.data))

\* one run of the preloaded graph
FixtureNext ==
    \/ \E initial_state \in FixtureStates :
          DOMAIN runs_db = {} /\ RunGraph(default_graph_id, initial_state)
    \/ \E run_id \in RunIds : StartRun(run_id)
    \/ \E run_id \in RunIds : FixtureStep(run_id)

FixtureSpec == FixtureInit /\ [][FixtureNext]_vars

----------------------------------------------------------------------------
\* the "Executing" entries of the nodes of a path
ExecutingAll(path) == [i \in DOMAIN path |-> "Executing: " \o path[i]]

\* the five nodes in graph order, and one more round of the retry loop
FirstPass ==
    <<"extract_functions", "check_complexity", "detect_issues",
      "suggest_improvements", "quality_gate">>
RetryRound == <<"detect_issues", "suggest_improvements", "quality_gate">>

\* the function-definition lines of the submitted code field
DefLines(run_id) ==
    SelectSeq(GetOr(submitted[run_id], "code", PyStr(<<"">>)).lines, HasDef)

\* the submitted code field is a str, or absent
CodeIsStr(run_id) ==
    GetOr(submitted[run_id], "code", PyStr(<<"">>)).type = "str"

\* the submitted quality_score is a number, or absent
ScoreIsInt(run_id) ==
    GetOr(submitted[run_id], "quality_score", PyInt(0)).type = "int"

\* a run of the preloaded graph submitted with a history list and without
\* quality_score
SeededRun(run_id) ==
    /\ runs_db[run_id].graph_id = default_graph_id
    /\ "history" \in DOMAIN submitted[run_id]
    /\ "quality_score" \notin DOMAIN submitted[run_id]

\* what C12 says of such a run: never more than 14 executions, and once the
\* task has ended, COMPLETED without the step cap, quality_score >= 80, and
\* quality_gate run four times (scores 20, 40, 60, 80) or once (score 100)
GateOutcome(run_id) ==
    LET run == runs_db[run_id]
        h == run.state.history
        seeded == submitted[run_id]["history"]
    IN /\ Executions(h) <= 14
       /\ tasks[run_id].pc = "done" =>
             /\ run.status = "COMPLETED"
             /\ run.error = None
             /\ tasks[run_id].left_at = 106
             /\ Occurrences(h, MaxStepsEntry(max_steps)) = 0
             /\ run.state.data["quality_score"].n >= 80
             /\ IF Len(DefLines(run_id)) > 2
                THEN /\ h = ExecutingAll(FirstPass \o RetryRound \o RetryRound \o RetryRound)
                            \o <<"Workflow Completed.">>
                     /\ Executions(h) = 14
                     /\ run.state.data["history"] =
                           seeded \o <<"Quality Gate: score=20", "Quality Gate: score=40",
                                       "Quality Gate: score=60", "Quality Gate: score=80">>
                     /\ run.state.data["quality_score"].n = 80
                ELSE /\ h = ExecutingAll(FirstPass) \o <<"Workflow Completed.">>
                     /\ Executions(h) = 5
                     /\ run.state.data["history"] = seeded \o <<"Quality Gate: score=100">>

(* C12 as stated: every run of "code-review-agent" whose initial data has a
   history list and no quality_score ends COMPLETED below the step cap with
   quality_score >= 80, quality_gate having run four times with scores 20,
   40, 60, 80 (14 executions) when the code has more than two
   function-definition lines and once with score 100 (5 executions)
   otherwise. *)
C12_AnyCode ==
    \A r \in DOMAIN runs_db : SeededRun(r) => GateOutcome(r)

(* C12, amended: the same, for initial data whose code field is absent or a
   string. *)
C12_GateLoop ==
    \A r \in DOMAIN runs_db : (SeededRun(r) /\ CodeIsStr(r)) => GateOutcome(r)

\* a finished run of three function definitions with a seeded history list
C12_Witness ==
    \E r \in DOMAIN runs_db :
        /\ SeededRun(r) /\ CodeIsStr(r)
        /\ tasks[r].pc = "done"
        /\ Len(DefLines(r)) = 3
        /\ submitted[r]["history"] = <<"seeded">>
        /\ Len(runs_db[r].state.data["history"]) = 5
        /\ Executions(HistoryOf(r)) = 14

\* a run of the preloaded graph submitted without the history key
UnseededRun(run_id) ==
    /\ runs_db[run_id].graph_id = default_graph_id
    /\ "history" \notin DOMAIN submitted[run_id]

\* the run failed, and the score report is in neither history
FailedNoRedirect(run_id) ==
    LET run == runs_db[run_id]
    IN /\ run.status = "FAILED"
       /\ run.error # None
       /\ "history" \notin DOMAIN run.state.data
       /\ \A i \in DOMAIN run.state.history, n \in 0..100 :
             run.state.history[i] # "Quality Gate: score=" \o ToString(n)

\* the first four nodes ran without error and the fifth execution, the first
\* of quality_gate, raised on the missing key; nothing ran after it
FailedAtGate(run_id) ==
    LET run == runs_db[run_id]
    IN /\ run.state.history =
             ExecutingAll(FirstPass)
             \o <<"Error in quality_gate: 'history'", "Workflow failed: 'history'">>
       /\ run.error = "'history'"
       /\ tasks[run_id].left_at = 97
       /\ tasks[run_id].steps = 5
       /\ {"functions", "complexity_score", "issues", "suggestions", "quality_score"}
             \subseteq DOMAIN run.state.data

(* C13 as stated: every run of "code-review-agent" whose initial data has no
   history key ends FAILED, its first four nodes executed without error, the
   fifth execution (quality_gate) raising on the missing key with nothing
   executed after it, and the score report written to neither history. *)
C13_AnyData ==
    \A r \in DOMAIN runs_db :
        (UnseededRun(r) /\ tasks[r].pc = "done") =>
            FailedNoRedirect(r) /\ FailedAtGate(r)

(* C13, amended: every such run ends FAILED with the score report in neither
   history; when the code field is absent or a string and quality_score is
   absent or a number, the first four nodes executed without error and the
   fifth execution (quality_gate) raised on the missing key, nothing being
   executed after it. *)
C13_MissingHistory ==
    \A r \in DOMAIN runs_db :
        (UnseededRun(r) /\ tasks[r].pc = "done") =>
            /\ FailedNoRedirect(r)
            /\ (CodeIsStr(r) /\ ScoreIsInt(r)) => FailedAtGate(r)

\* a run of three function definitions and a seeded score failed at the gate
C13_Witness ==
    \E r \in DOMAIN runs_db :
        /\ UnseededRun(r) /\ tasks[r].pc = "done"
        /\ Len(DefLines(r)) = 3
        /\ "quality_score" \in DOMAIN submitted[r]
        /\ runs_db[r].state.data["quality_score"].n = 90
        /\ runs_db[r].error = "'history'"

----------------------------------------------------------------------------
(* Routing by the outcome label: clients create a graph whose start node has
   a conditional mapping with the keys "next", "pass" and "", and submit runs
   of it and of the preloaded graph. *)

Cond3(o1, d1, o2, d2, o3, d3) ==
    DictEdge([o \in {o1, o2, o3} |-> IF o = o1 THEN d1 ELSE IF o = o2 THEN d2 ELSE d3])

RouteRequests ==
    { Graph(<<"detect_issues", "quality_gate", "check_complexity">>,
            Edges2("detect_issues",
                   Cond3("next", "quality_gate", "pass", "check_complexity",
                         "", "detect_issues"),
                   "quality_gate", Cond2("pass", None, "retry", "detect_issues")),
            "detect_issues") }

RouteNext ==
    \/ \E req \in RouteRequests :
          DOMAIN graphs_db = {default_graph_id} /\ CreateGraph(req)
    \/ \E graph_id \in GraphIdsAsked, initial_state \in InitialStates :
          Cardinality(DOMAIN runs_db) < MaxRuns /\ RunGraph(graph_id, initial_state)
    \/ \E run_id \in RunIds : StartRun(run_id)
    \/ \E run_id \in RunIds, result \in StepResults : StepReturns(run_id, result)

RouteSpec == Init /\ [][RouteNext]_vars

\* the label the claim gives to a returned value
Label(result) == IF result.type = "str" THEN result.value ELSE "next"

(* C14: when the step of a node with a conditional mapping returns, the
   mapping is consulted with the returned string itself when the step
   returned a string (the empty string included) and with "next" when it
   returned any other value or nothing: the task goes on to the node the
   mapping gives for that label, or, when the label is no key, the run ends
   with the warning naming that label. *)
C14_OutcomeLabel ==
    [][\A r \in RunIds, result \in StepResults :
          (StepReturns(r, result) /\ result.kind = "return") =>
              LET graph == graphs_db[runs_db[r].graph_id]
                  node == tasks[r].current_node
                  label == Label(result)
              IN (/\ node \in DOMAIN graph.edges
                  /\ graph.edges[node].type = "dict"
                  /\ graph.edges[node].map # EmptyDict) =>
                     LET m == graph.edges[node].map
                     IN IF label \in DOMAIN m
                        THEN /\ tasks'[r].current_node = m[label]
                             /\ tasks'[r].left_at # 126
                             /\ Occurrences(HistoryOf(r)', WarningEntry(label)) = 0
                        ELSE /\ tasks'[r].left_at = 126
                             /\ HistoryOf(r)' = HistoryOf(r)
                                   \o <<WarningEntry(label), "Workflow Completed.">>]_vars

\* one run was routed by the "next" key and then ended on the label "next",
\* another was routed by the key "" back to its start node
C14_Witness ==
    \E r1, r2 \in DOMAIN runs_db :
        /\ HistoryOf(r1) = <<"Executing: detect_issues", "Executing: quality_gate",
                             WarningEntry("next"), "Workflow Completed.">>
        /\ HistoryOf(r2) = <<"Executing: detect_issues", "Executing: detect_issues">>

----------------------------------------------------------------------------
(* C15: the history of a run is append-only: in every step of the system (a
   node execution, the recording of a failure, the truncation at the step
   cap, the completion, a request, a step of another run) the history of
   every run before the step is a prefix of its history after the step. *)
C15_AppendOnly ==
    [][\A r \in DOMAIN runs_db :
          /\ r \in DOMAIN runs_db'
          /\ IsPrefix(HistoryOf(r), HistoryOf(r)')]_vars

\* a failed run and a truncated run
C15_Witness ==
    \E r1, r2 \in DOMAIN runs_db :
        /\ HistoryOf(r1) = <<"Executing: detect_issues", "Executing: quality_gate",
                             "Error in quality_gate: boom", "Workflow failed: boom">>
        /\ Len(HistoryOf(r2)) = max_steps + 2
        /\ HistoryOf(r2)[max_steps + 1] = MaxStepsEntry(max_steps)
        /\ Last(HistoryOf(r2)) = "Workflow Completed."

----------------------------------------------------------------------------
(* C16: when the step of a node returns, the run ends with the warning
   entry naming the outcome label exactly when the edge configuration of the
   node is a conditional mapping and the label is not one of its keys, a
   mapping with no keys included; when the label is a key mapped to the
   terminal marker the run ends without the warning. *)
C16_UndefinedOutcome ==
    [][\A r \in RunIds, result \in StepResults :
          (StepReturns(r, result) /\ result.kind = "return") =>
              LET graph == graphs_db[runs_db[r].graph_id]
                  node == tasks[r].current_node
                  label == Label(result)
                  mapping == node \in DOMAIN graph.edges /\ graph.edges[node].type = "dict"
                  warned == /\ tasks'[r].pc = "done"
                            /\ HistoryOf(r)' = HistoryOf(r)
                                  \o <<WarningEntry(label), "Workflow Completed.">>
              IN /\ warned <=> (mapping /\ label \notin DOMAIN graph.edges[node].map)
                 /\ (/\ mapping
                     /\ label \in DOMAIN graph.edges[node].map
                     /\ graph.edges[node].map[label] = None) =>
                        /\ tasks'[r].pc = "done"
                        /\ HistoryOf(r)' = HistoryOf(r) \o <<"Workflow Completed.">>]_vars

----------------------------------------------------------------------------
\* b is what edges[a] gives for the outcome label
EdgeLeads(graph, a, label, b) ==
    /\ a \in DOMAIN graph.edges
    /\ \/ graph.edges[a].type = "str" /\ graph.edges[a].to = b
       \/ /\ graph.edges[a].type = "dict"
          /\ label \in DOMAIN graph.edges[a].map
          /\ graph.edges[a].map[label] = b

(* C17: the executed nodes of a run follow the edges of its graph.  The
   first "Executing" entry of a run names start_node.  When the step of the
   node a named by the last "Executing" entry returns and the run goes on to
   execute b, the entry for b is appended and edges[a] is the unconditional
   successor b or a conditional mapping whose value for the outcome label of
   that return is b.  When a has no edge configuration the run executes no
   other node. *)
C17_EdgeRule ==
    [][/\ \A r \in RunIds :
            (StartRun(r) /\ tasks'[r].pc = "awaiting") =>
                HistoryOf(r)' = <<"Executing: "
                                     \o graphs_db[runs_db[r].graph_id].start_node>>
       /\ \A r \in RunIds, result \in StepResults :
            (r \in DOMAIN tasks /\ tasks'[r] # tasks[r] /\ StepReturns(r, result)) =>
                LET graph == graphs_db[runs_db[r].graph_id]
                    a == tasks[r].current_node
                    b == tasks'[r].current_node
                    h == HistoryOf(r)
                IN /\ Last(h) = "Executing: " \o a
                   /\ IF tasks'[r].pc = "awaiting"
                      THEN /\ HistoryOf(r)' = Append(h, "Executing: " \o b)
                           /\ result.kind = "return"
                           /\ EdgeLeads(graph, a, Label(result), b)
                      ELSE \A i \in (Len(h) + 1)..Len(HistoryOf(r)') :
                              ~IsExecuting(HistoryOf(r)'[i])
                   /\ a \notin DOMAIN graph.edges => tasks'[r].pc = "done"]_vars

\* one run went from detect_issues to check_complexity by the "pass" key and
\* ended there, check_complexity having no edge configuration; the other
\* went from extract_functions to its unconditional successor
C17_Witness ==
    \E r1, r2 \in DOMAIN runs_db :
        /\ HistoryOf(r1) = <<"Executing: detect_issues", "Executing: check_complexity",
                             "Workflow Completed.">>
        /\ tasks[r1].left_at = 118
        /\ "check_complexity" \notin DOMAIN graphs_db[runs_db[r1].graph_id].edges
        /\ HistoryOf(r2) = <<"Executing: extract_functions",
                             "Executing: check_complexity">>

----------------------------------------------------------------------------
(* C18: every node the traversal of an accepted run attempts to execute is
   registered: no task leaves the traversal at the not-found branch of
   execute_node, a run that failed did so with the message of an exception
   its step raised and not with a "not found in registry" error, and the
   node a task is executing is a node of the run's graph and in the
   registry. *)
C18_NodesRegistered ==
    \A r \in DOMAIN runs_db :
        LET graph == graphs_db[runs_db[r].graph_id]
        IN /\ tasks[r].left_at # 82
           /\ runs_db[r].status = "FAILED" =>
                 /\ tasks[r].left_at = 97
                 /\ runs_db[r].error = tasks[r].exc
                 /\ runs_db[r].error # NotFoundMessage(tasks[r].current_node)
           /\ Elems(graph.nodes) \subseteq tool_registry
           /\ tasks[r].pc = "awaiting" =>
                 /\ tasks[r].current_node \in Elems(graph.nodes)
                 /\ tasks[r].current_node \in tool_registry

\* a run of a created graph that lists the empty name, accepted once that
\* name was registered, at its second node
C18_Witness ==
    \E r \in DOMAIN runs_db :
        /\ runs_db[r].graph_id = GraphId(1)
        /\ "" \in Elems(graphs_db[GraphId(1)].nodes)
        /\ tasks[r].pc = "awaiting"
        /\ HistoryOf(r) = <<"Executing: quality_gate", "Executing: detect_issues">>

(* C19: in every state, the error of a run record is set exactly when its
   status is FAILED, so PENDING, RUNNING and COMPLETED records have no error;
   and a PENDING record has an empty history and the data it was submitted
   with. *)
C19_ErrorIffFailed ==
    \A r \in DOMAIN runs_db :
        LET body == get_run_state(r).body
        IN /\ get_run_state(r).status = 200
           /\ (body.error # None) <=> (body.status = "FAILED")
           /\ body.status \in {"PENDING", "RUNNING", "COMPLETED"} => body.error = None
           /\ body.status = "PENDING" =>
                 /\ body.state.history = <<>>
                 /\ body.state.data = submitted[r]

\* a failed record with its error next to a pending one
C19_Witness ==
    \E r1, r2 \in DOMAIN runs_db :
        /\ runs_db[r1].status = "FAILED"
        /\ runs_db[r1].error = "boom"
        /\ runs_db[r2].status = "PENDING"
        /\ runs_db[r2].error = None

====
